---- MODULE Spec2Model ----
(***************************************************************************)
(* State-machine model of the AstroLab Telegram bot (src/app.py): the      *)
(* in-memory ledger `users`, its persisted copy, the per-chat session flag *)
(* `contact_sent`, the wall clock, and one action per update handler plus  *)
(* the daily broadcast job.                                                *)
(*                                                                         *)
(* Time is counted in ticks; a calendar day is TicksPerDay ticks, so that  *)
(* datetime values (ticks) and date values (days) stay distinct.           *)
(* Handlers mutate the ledger before their first await, and the generator  *)
(* call is a blocking request, so each handler is one atomic step.         *)
(* button_handler is registered after save_user in the same handler group  *)
(* with a filter that save_user's filter already covers; its forecast      *)
(* branch is a copy of the one in forecast and is modelled by the shared   *)
(* operators below.                                                        *)
(***************************************************************************)
EXTENDS Integers, Sequences, FiniteSets, TLC

VARIABLES
    users,          \* the global dict `users`: uid -> record (exists = key present)
    order,          \* insertion order of the keys of `users` (dict iteration order)
    disk,           \* content of users.json as last written by save_users
    contact_sent,   \* context.user_data["contact_sent"] per chat
    now,            \* datetime.now(), in ticks
    sweep,          \* position of the daily_job coroutine
    out,            \* what the last step did: handler, user, reply, delivered text,
                    \* parsed day count, and how daily_job went on after it
    genCalls,       \* generate_forecast invocations per user on the current day
    sent,           \* first forecast text delivered per user on the current day
    trials,         \* trial forecasts delivered per user, ever
    invoice         \* the invoice last sent to each chat by callback

vars == <<users, order, disk, contact_sent, now, sweep, out, genCalls, sent, trials,
          invoice>>

----------------------------------------------------------------------------
(* Bounds of the model *)

TicksPerDay == 2
MaxGen == 2

(* The calendar days (counted from the epoch) on which events happen: the  *)
(* ledger only changes in handlers, so the clock jumps from one event      *)
(* instant to the next.  A 7-day plan bought on day 0 runs out on day 7.   *)
EventDays == {0, 1, 7}

Users == {"u1", "u2"}
Solo == {"u1"}

(* The calendar date on which the model's clock reads 0: <<year, month, day>> *)
Epoch == <<2026, 1, 1>>

----------------------------------------------------------------------------
(* Values *)

NoTime == 0 - 1
NoText == "none"
NoName == "none"
NoBirth == "none"
NoDays == 0 - 1

Date(t) == t \div TicksPerDay

Max(a, b) == IF a >= b THEN a ELSE b
Min(a, b) == IF a <= b THEN a ELSE b

(* A user record with no keys: users.get(uid, {}) for an unknown uid *)
EmptyRecord ==
    [exists |-> FALSE, name |-> NoName, birth |-> NoBirth, trial_used |-> FALSE,
     paid |-> FALSE, expires |-> NoTime, first_payment |-> NoTime,
     last_forecast_date |-> NoTime, cached_forecast |-> NoText]

----------------------------------------------------------------------------
(* datetime(day=d, month=m, year=y): proleptic Gregorian ordinal *)

IsLeap(y) == (y % 4 = 0) /\ ((y % 100 # 0) \/ (y % 400 = 0))

DaysInMonth(y, m) ==
    IF m = 2 THEN (IF IsLeap(y) THEN 29 ELSE 28)
    ELSE IF m \in {4, 6, 9, 11} THEN 30 ELSE 31

DaysBeforeMonth(y, m) ==
    <<0, 31, 59, 90, 120, 151, 181, 212, 243, 273, 304, 334>>[m]
    + (IF m > 2 /\ IsLeap(y) THEN 1 ELSE 0)

DaysBeforeYear(y) ==
    (y - 1) * 365 + ((y - 1) \div 4) - ((y - 1) \div 100) + ((y - 1) \div 400)

ValidYMD(y, m, d) ==
    /\ y \in 1..9999
    /\ m \in 1..12
    /\ d >= 1
    /\ d <= DaysInMonth(y, m)

Ordinal(y, m, d) == DaysBeforeYear(y) + DaysBeforeMonth(y, m) + d

(* Ticks between the model's epoch and midnight of the given date *)
TickOfDate(y, m, d) ==
    (Ordinal(y, m, d) - Ordinal(Epoch[1], Epoch[2], Epoch[3])) * TicksPerDay

----------------------------------------------------------------------------
(* Free-text input.  A birth line is kept as typed (txt) together with the *)
(* result of birth_str.split(".") mapped through int: `parts` when every   *)
(* piece is an integer literal, ints = FALSE when int() raises ValueError. *)

BirthInputs ==
    { [txt |-> "12.03.1990", ints |-> TRUE,  parts |-> <<12, 3, 1990>>],
      [txt |-> "31.13.2050", ints |-> TRUE,  parts |-> <<31, 13, 2050>>],
      [txt |-> "01.06.2050", ints |-> TRUE,  parts |-> <<1, 6, 2050>>],
      [txt |-> "01.01.1876", ints |-> TRUE,  parts |-> <<1, 1, 1876>>],
      [txt |-> "not-a-date", ints |-> FALSE, parts |-> <<>>] }

NoBirthLine == [txt |-> "", ints |-> FALSE, parts |-> <<>>]

(* update.message.text of a free-text message: a command the dispatcher    *)
(* did not claim (slash), or `nlines` lines of which the first two are     *)
(* the name and the birth date.                                            *)
Messages ==
    { [slash |-> TRUE,  nlines |-> 1, first |-> "/unknown", birth |-> NoBirthLine],
      [slash |-> FALSE, nlines |-> 1, first |-> "anna",     birth |-> NoBirthLine] }
    \cup { [slash |-> FALSE, nlines |-> 2, first |-> "anna", birth |-> b] : b \in BirthInputs }

(* lines[0].strip().capitalize() on the names the model sends *)
Capitalize(s) == IF s = "anna" THEN "Anna" ELSE s

HundredYears == 365 * 100

is_valid_birth_date_NoFutureCheck(b, t) ==
    IF ~b.ints \/ Len(b.parts) # 3 THEN FALSE
    ELSE LET d == b.parts[1]
             m == b.parts[2]
             y == b.parts[3]
         IN  IF ~ValidYMD(y, m, d) THEN FALSE
             ELSE LET birth_date == TickOfDate(y, m, d)
                  IN  IF birth_date < t - HundredYears * TicksPerDay THEN FALSE
                      ELSE TRUE

(* is_valid_birth_date(birth_str), evaluated at datetime.now() = t *)
is_valid_birth_date(b, t) ==
    IF ~b.ints \/ Len(b.parts) # 3 THEN FALSE
    ELSE LET d == b.parts[1]
             m == b.parts[2]
             y == b.parts[3]
         IN  IF ~ValidYMD(y, m, d) THEN FALSE
             ELSE LET birth_date == TickOfDate(y, m, d)
                  IN  IF birth_date > t THEN FALSE
                      ELSE IF birth_date < t - HundredYears * TicksPerDay THEN FALSE
                      ELSE TRUE

----------------------------------------------------------------------------
(* Invoice payloads: strings as sequences of characters *)

Digits == <<"0", "1", "2", "3", "4", "5", "6", "7", "8", "9">>

DigitChars == {Digits[i] : i \in 1..10}

DigitValue(c) == (CHOOSE i \in 1..10 : Digits[i] = c) - 1

RECURSIVE FormatInt(_)
(* str(n) for n >= 0 *)
FormatInt(n) ==
    IF n < 10 THEN <<Digits[n + 1]>>
    ELSE FormatInt(n \div 10) \o <<Digits[(n % 10) + 1]>>

PlanPrefix == <<"p", "l", "a", "n", "_">>

(* The plan table of callback: callback_data -> days *)
PlanDays == [sub7 |-> 7, sub30 |-> 30, sub365 |-> 365]

Plans == DOMAIN PlanDays

(* payload=f"plan_{days}" *)
InvoicePayload(plan) == PlanPrefix \o FormatInt(PlanDays[plan])

Garbage == <<"g", "a", "r", "b", "a", "g", "e">>

(* The prices of callback, in Telegram Stars *)
PlanPrice == [sub7 |-> 1, sub30 |-> 649, sub365 |-> 5499]

(* callback(update, context): the invoice sent for the chosen plan *)
callback(plan) ==
    [plan |-> plan, payload |-> InvoicePayload(plan), currency |-> "XTR",
     price |-> PlanPrice[plan]]

NoInvoice == [plan |-> "none", payload |-> <<>>, currency |-> "none", price |-> 0]

(* The currencies a pre-checkout query may name *)
Currencies == {"XTR", "USD"}

pre_checkout_handler_AcceptAll(currency) == "ok"

(* pre_checkout_handler(update, context): the answer to a query in the     *)
(* given currency                                                          *)
pre_checkout_handler(currency) ==
    IF currency = "XTR" THEN "ok" ELSE "rejected"

(* The payloads a payment-completed update may carry *)
PayloadInputs == {InvoicePayload(p) : p \in Plans} \cup {Garbage}

HasPrefixAt(s, i, pre) ==
    /\ i + Len(pre) - 1 <= Len(s)
    /\ \A k \in 1..Len(pre) : s[i + k - 1] = pre[k]

RECURSIVE RemoveAll(_, _, _)
(* s[i..].replace(pre, "") *)
RemoveAll(s, i, pre) ==
    IF i > Len(s) THEN <<>>
    ELSE IF HasPrefixAt(s, i, pre) THEN RemoveAll(s, i + Len(pre), pre)
    ELSE <<s[i]>> \o RemoveAll(s, i + 1, pre)

RECURSIVE DigitsValue(_, _)
DigitsValue(s, acc) ==
    IF s = <<>> THEN acc
    ELSE DigitsValue(Tail(s), acc * 10 + DigitValue(Head(s)))

(* int(s): ok = FALSE stands for ValueError *)
ParseInt(s) ==
    LET signed == Len(s) >= 1 /\ s[1] \in {"+", "-"}
        body   == IF signed THEN Tail(s) ELSE s
    IN  IF body = <<>> \/ \E i \in 1..Len(body) : body[i] \notin DigitChars
        THEN [ok |-> FALSE, val |-> 0]
        ELSE [ok |-> TRUE,
              val |-> IF signed /\ s[1] = "-" THEN 0 - DigitsValue(body, 0)
                      ELSE DigitsValue(body, 0)]

(* int(payment.invoice_payload.replace("plan_", "")) *)
ParseDays(payload) == ParseInt(RemoveAll(payload, 1, PlanPrefix))

----------------------------------------------------------------------------
(* The forecast generator.  The completion API returns free text (a text   *)
(* and the empty text stand for it); on any failure the function returns   *)
(* the fixed fallback sentence, so two calls may return different texts.   *)

GenTexts == {"t1", ""}

Fallback(name, birth) == "fallback"

(* generate_forecast(name, birth): the values one call may return *)
generate_forecast(name, birth) == GenTexts \cup {Fallback(name, birth)}

(* Python truthiness of user_data.get("cached_forecast") *)
Truthy(text) == text # NoText /\ text # ""

----------------------------------------------------------------------------
(* Handlers as functions from the record (and inputs) to the set of        *)
(* possible outcomes: the record afterwards, whether save_users ran, the   *)
(* reply sent (or the exception raised), the forecast text delivered,      *)
(* whether generate_forecast was called, and the day count a payment       *)
(* payload was parsed to.                                                  *)

Outcome(rec, saved, reply, text, generated) ==
    [rec |-> rec, saved |-> saved, reply |-> reply, text |-> text,
     generated |-> generated, days |-> NoDays]

Quiet(rec, reply) == Outcome(rec, FALSE, reply, NoText, FALSE)

PaidBranch_NoCacheWrite(rec, t) ==
    IF t >= rec.expires
    THEN {Outcome([rec EXCEPT !.paid = FALSE], TRUE, "expired", NoText, FALSE)}
    ELSE IF rec.last_forecast_date = Date(t) /\ Truthy(rec.cached_forecast)
    THEN {Outcome(rec, FALSE, "cached", rec.cached_forecast, FALSE)}
    ELSE IF rec.name = NoName THEN {Quiet(rec, "KeyError")}
    ELSE {Outcome([rec EXCEPT !.last_forecast_date = Date(t)],
                  TRUE, "forecast", txt, TRUE)
            : txt \in generate_forecast(rec.name, rec.birth)}

(* The paid branch shared verbatim by forecast, button_handler and         *)
(* save_user: expiry check against the timestamp, then the per-day cache.  *)
PaidBranch(rec, t) ==
    IF t >= rec.expires
    THEN {Outcome([rec EXCEPT !.paid = FALSE], TRUE, "expired", NoText, FALSE)}
    ELSE LET today == Date(t)
         IN  IF rec.last_forecast_date = today
             THEN IF Truthy(rec.cached_forecast)
                  THEN {Outcome(rec, FALSE, "cached", rec.cached_forecast, FALSE)}
                  ELSE IF rec.name = NoName
                  THEN {Quiet(rec, "KeyError")}
                  ELSE {Outcome([rec EXCEPT !.cached_forecast = txt],
                                TRUE, "forecast", txt, TRUE)
                          : txt \in generate_forecast(rec.name, rec.birth)}
             ELSE IF rec.name = NoName
                  THEN {Quiet(rec, "KeyError")}
                  ELSE {Outcome([rec EXCEPT !.last_forecast_date = today,
                                            !.cached_forecast = txt],
                                TRUE, "forecast", txt, TRUE)
                          : txt \in generate_forecast(rec.name, rec.birth)}

(* forecast(update, context) for the record of the sender at time t *)
forecast(rec, t) ==
    IF ~rec.exists THEN {Quiet(rec, "ask_register")}
    ELSE IF ~rec.paid /\ ~rec.trial_used THEN {Quiet(rec, "use_trial_first")}
    ELSE IF rec.paid THEN PaidBranch(rec, t)
    ELSE {Quiet(rec, "not_paid")}

Register_NoTrialMark(rec, m, t) ==
    IF m.nlines < 2 THEN {Quiet(rec, "format")}
    ELSE IF ~is_valid_birth_date(m.birth, t) THEN {Quiet(rec, "bad_date")}
    ELSE {Outcome([rec EXCEPT !.exists = TRUE,
                              !.name = Capitalize(m.first),
                              !.birth = m.birth.txt],
                  TRUE, "trial", txt, TRUE)
            : txt \in generate_forecast(Capitalize(m.first), m.birth.txt)}

(* The registration steps of save_user (both the new-user branch and the   *)
(* branch of a known user without trial): split, validate, store, save,    *)
(* generate the trial forecast.                                            *)
Register(rec, m, t) ==
    IF m.nlines < 2 THEN {Quiet(rec, "format")}
    ELSE IF ~is_valid_birth_date(m.birth, t) THEN {Quiet(rec, "bad_date")}
    ELSE {Outcome([rec EXCEPT !.exists = TRUE,
                              !.name = Capitalize(m.first),
                              !.birth = m.birth.txt,
                              !.trial_used = TRUE],
                  TRUE, "trial", txt, TRUE)
            : txt \in generate_forecast(Capitalize(m.first), m.birth.txt)}

save_user_Regrant(rec, csent, m, t) ==
    IF m.slash THEN {Quiet(rec, "none")}
    ELSE IF ~csent THEN {Quiet(rec, "share_phone")}
    ELSE IF rec.exists /\ rec.paid THEN PaidBranch(rec, t)
    ELSE Register(rec, m, t)

save_user_NoContactGate(rec, csent, m, t) ==
    IF m.slash THEN {Quiet(rec, "none")}
    ELSE IF rec.exists
    THEN IF rec.paid THEN PaidBranch(rec, t)
         ELSE IF rec.trial_used THEN {Quiet(rec, "trial_used")}
         ELSE Register(rec, m, t)
    ELSE Register(rec, m, t)

(* save_user(update, context): free-text message m, session flag csent *)
save_user(rec, csent, m, t) ==
    IF m.slash THEN {Quiet(rec, "none")}
    ELSE IF ~csent THEN {Quiet(rec, "share_phone")}
    ELSE IF rec.exists
    THEN IF rec.paid THEN PaidBranch(rec, t)
         ELSE IF rec.trial_used THEN {Quiet(rec, "trial_used")}
         ELSE Register(rec, m, t)
    ELSE Register(rec, m, t)

successful_payment_NoSave(rec, payload, t) ==
    LET days == ParseDays(payload)
    IN  IF ~days.ok THEN {Quiet(rec, "ValueError")}
        ELSE {[Outcome([rec EXCEPT !.exists = TRUE,
                                   !.paid = TRUE,
                                   !.expires = t + days.val * TicksPerDay,
                                   !.first_payment = t],
                       FALSE, "paid_ok", NoText, FALSE)
               EXCEPT !.days = days.val]}

(* successful_payment(update, context): the whole body runs inside try;    *)
(* a ValueError of int() is caught and printed.                            *)
successful_payment(rec, payload, t) ==
    LET days == ParseDays(payload)
    IN  IF ~days.ok THEN {Quiet(rec, "ValueError")}
        ELSE LET expires == t + days.val * TicksPerDay
             IN  {[Outcome([rec EXCEPT !.exists = TRUE,
                                       !.paid = TRUE,
                                       !.expires = expires,
                                       !.first_payment = t],
                           TRUE, "paid_ok", NoText, FALSE)
                   EXCEPT !.days = days.val]}

rest_ClearsOnLastDay(rec, t) ==
    IF ~rec.exists THEN {Quiet(rec, "ask_register")}
    ELSE IF rec.paid
    THEN LET remaining == (rec.expires - t) \div TicksPerDay
         IN  IF remaining > 0 THEN {Quiet(rec, "remaining")}
             ELSE {Outcome([rec EXCEPT !.paid = FALSE], TRUE, "expired", NoText, FALSE)}
    ELSE {Quiet(rec, "no_subscription")}

(* rest(update, context): remaining = (expires - now).days *)
rest(rec, t) ==
    IF ~rec.exists THEN {Quiet(rec, "ask_register")}
    ELSE IF rec.paid
    THEN LET remaining == (rec.expires - t) \div TicksPerDay
         IN  IF remaining >= 0 THEN {Quiet(rec, "remaining")}
             ELSE {Outcome([rec EXCEPT !.paid = FALSE], TRUE, "expired", NoText, FALSE)}
    ELSE {Quiet(rec, "no_subscription")}

----------------------------------------------------------------------------
(* State changes common to all handlers *)

(* save_users(data): the whole ledger is dumped over users.json *)
save_users(data) == data

Report(op, uid, reply, text) ==
    [op |-> op, uid |-> uid, reply |-> reply, text |-> text, days |-> NoDays,
     then |-> "none", arg |-> "none"]

Counted(u) == [genCalls EXCEPT ![u] = Min(@ + 1, MaxGen)]

(* A forecast text goes out to u: the first one of the day is remembered *)
Sending(u, text) == IF sent[u] = NoText THEN [sent EXCEPT ![u] = text] ELSE sent

(* One handler run for user u ending in outcome o *)
Effect(op, u, o) ==
    /\ users' = [users EXCEPT ![u] = o.rec]
    /\ order' = IF o.rec.exists /\ ~users[u].exists THEN Append(order, u) ELSE order
    /\ disk' = IF o.saved THEN save_users(users') ELSE disk
    /\ out' = [Report(op, u, o.reply, o.text) EXCEPT !.days = o.days]
    /\ genCalls' = IF o.generated THEN Counted(u) ELSE genCalls
    /\ sent' = IF o.text # NoText THEN Sending(u, o.text) ELSE sent
    /\ trials' = IF o.reply = "trial" THEN [trials EXCEPT ![u] = @ + 1] ELSE trials
    /\ UNCHANGED <<contact_sent, now, sweep, invoice>>

(* The run of handler op that would have ended as o, when its call of      *)
(* save_users raises OSError: the assignments to users made before the     *)
(* call stay, the file is not replaced and nothing after the call runs.    *)
(* The exception leaves the handler, except in successful_payment, whose   *)
(* except clause prints it and returns.  The registration branches call    *)
(* generate_forecast after save_users, the paid branch before it.          *)
FailedSave(op, o) ==
    [o EXCEPT !.saved = FALSE,
              !.text = NoText,
              !.generated = IF o.reply = "trial" THEN FALSE ELSE @,
              !.reply = IF op = "successful_payment" THEN "OSError_caught"
                        ELSE "OSError"]

(* The handler runs of user u at this moment, as <<handler, outcome>> *)
HandlerRuns(u) ==
    {<<"forecast", o>> : o \in forecast(users[u], now)}
        \cup UNION {{<<"save_user", o>> :
                        o \in save_user(users[u], contact_sent[u], m, now)}
                     : m \in Messages}
        \cup UNION {{<<"successful_payment", o>> :
                        o \in successful_payment(users[u], payload, now)}
                     : payload \in PayloadInputs}
        \cup {<<"rest", o>> : o \in rest(users[u], now)}

----------------------------------------------------------------------------
(* Actions: one per update handler *)

ContactHandler(u) ==
    /\ contact_sent' = [contact_sent EXCEPT ![u] = TRUE]
    /\ out' = Report("contact_handler", u, "ask_name_date", NoText)
    /\ UNCHANGED <<users, order, disk, now, sweep, genCalls, sent, trials, invoice>>

ForecastCommand(u) ==
    \E o \in forecast(users[u], now) : Effect("forecast", u, o)

FreeText(u) ==
    \E m \in Messages :
        \E o \in save_user(users[u], contact_sent[u], m, now) :
            Effect("save_user", u, o)

PaymentCompleted(u) ==
    \E payload \in PayloadInputs :
        \E o \in successful_payment(users[u], payload, now) :
            Effect("successful_payment", u, o)

RestCommand(u) ==
    \E o \in rest(users[u], now) : Effect("rest", u, o)

(* A handler run of u in which the ledger cannot be written *)
SaveFails(u) ==
    \E run \in HandlerRuns(u) :
        /\ run[2].saved
        /\ Effect(run[1], u, FailedSave(run[1], run[2]))

(* A plan button is pressed: callback sends the invoice *)
Callback(u) ==
    \E plan \in Plans :
        /\ invoice' = [invoice EXCEPT ![u] = callback(plan)]
        /\ out' = [Report("callback", u, "invoice", NoText) EXCEPT !.arg = plan]
        /\ UNCHANGED <<users, order, disk, contact_sent, now, sweep, genCalls, sent,
                       trials>>

PreCheckout(u) ==
    \E currency \in Currencies :
        /\ out' = [Report("pre_checkout_handler", u, pre_checkout_handler(currency),
                          NoText) EXCEPT !.arg = currency]
        /\ UNCHANGED <<users, order, disk, contact_sent, now, sweep, genCalls, sent,
                       trials, invoice>>

(* The invoice of the chat is paid: the payment-completed update carries   *)
(* its payload verbatim.                                                   *)
InvoicePaid(u) ==
    /\ invoice[u] # NoInvoice
    /\ \E o \in successful_payment(users[u], invoice[u].payload, now) :
          Effect("successful_payment", u, o)

----------------------------------------------------------------------------
(* daily_job: the loop over users.items().  The coroutine yields only at   *)
(* `await send_message`; everything between two awaits is one step.        *)
(* The job is registered with a thread-based scheduler that calls the      *)
(* coroutine function without awaiting it; the model takes the body as run *)
(* on the bot's event loop, at any moment, one run at a time.              *)

IdleSweep == [pc |-> "idle", idx |-> 0, len |-> 0, day |-> 0]

(* The two `continue` tests of the loop: the record is served when it is   *)
(* paid and its expiry date is not before the date the job started on.     *)
SweepEntitled(rec, day) ==
    IF ~rec.paid THEN FALSE
    ELSE IF Date(rec.expires) < day THEN FALSE
    ELSE TRUE

RECURSIVE Scan(_, _)
(* Run the loop from position i of the iteration until it ends, raises     *)
(* KeyError on a record without name, or reaches a user to send to.        *)
Scan(i, day) ==
    IF i > Len(order) THEN [k |-> "done", at |-> i]
    ELSE LET u == users[order[i]]
         IN  IF ~SweepEntitled(u, day) THEN Scan(i + 1, day)
             ELSE IF u.name = NoName THEN [k |-> "KeyError", at |-> i]
             ELSE [k |-> "send", at |-> i]

(* The step of the dict iterator taken when the loop comes back from an    *)
(* await: RuntimeError when the dict changed size since the loop began.    *)
Resume(i, len, day) ==
    IF Len(order) # len THEN [k |-> "RuntimeError", at |-> i] ELSE Scan(i, day)

(* The loop ran up to r: the text for the user reached is generated (a     *)
(* blocking call) and the send begins, or the job is over.                 *)
SweepTo(r, len, day) ==
    IF r.k = "send"
    THEN /\ sweep' = [pc |-> "send", idx |-> r.at, len |-> len, day |-> day]
         /\ genCalls' = Counted(order[r.at])
    ELSE /\ sweep' = IdleSweep
         /\ genCalls' = genCalls

SweepReport(uid, reply, text, r) ==
    [Report("daily_job", uid, reply, text) EXCEPT !.then = r.k]

DailyJobStart ==
    /\ sweep.pc = "idle"
    /\ LET r == Scan(1, Date(now))
       IN  /\ SweepTo(r, Len(order), Date(now))
           /\ out' = SweepReport("none", "started", NoText, r)
    /\ UNCHANGED <<users, order, disk, contact_sent, now, sent, trials, invoice>>

(* The awaited send_message returns (delivered) or raises (caught and      *)
(* printed), and the loop goes on.  The text is the one generate_forecast  *)
(* returned when the loop reached this user; its value is first observed   *)
(* here.                                                                   *)
DailyJobSent ==
    /\ sweep.pc = "send"
    /\ LET uid == order[sweep.idx]
           r   == Resume(sweep.idx + 1, sweep.len, sweep.day)
       IN  /\ \E delivered \in BOOLEAN :
               \E txt \in generate_forecast(users[uid].name, users[uid].birth) :
                  /\ sent' = IF delivered THEN Sending(uid, txt) ELSE sent
                  /\ out' = IF delivered
                            THEN SweepReport(uid, "forecast", txt, r)
                            ELSE SweepReport(uid, "send_failed", NoText, r)
           /\ SweepTo(r, sweep.len, sweep.day)
    /\ UNCHANGED <<users, order, disk, contact_sent, now, trials, invoice>>

----------------------------------------------------------------------------
(* The clock *)

(* The instants of the given days that lie after t *)
Later(days, t) == {d * TicksPerDay + k : d \in days, k \in 0..(TicksPerDay - 1)}
                      \ (0..t)

(* Time passes until the next instant at which something happens *)
Tick(days) ==
    /\ Later(days, now) # {}
    /\ now' = CHOOSE t \in Later(days, now) : \A t2 \in Later(days, now) : t <= t2
    /\ genCalls' = IF Date(now') # Date(now) THEN [u \in Users |-> 0] ELSE genCalls
    /\ sent' = IF Date(now') # Date(now) THEN [u \in Users |-> NoText] ELSE sent
    /\ out' = Report("tick", "none", "none", NoText)
    /\ UNCHANGED <<users, order, disk, contact_sent, sweep, trials, invoice>>

----------------------------------------------------------------------------
(* Specifications *)

Init ==
    /\ users = [u \in Users |-> EmptyRecord]
    /\ order = <<>>
    /\ disk = users
    /\ contact_sent = [u \in Users |-> FALSE]
    /\ now = 0
    /\ sweep = IdleSweep
    /\ out = Report("init", "none", "none", NoText)
    /\ genCalls = [u \in Users |-> 0]
    /\ sent = [u \in Users |-> NoText]
    /\ trials = [u \in Users |-> 0]
    /\ invoice = [u \in Users |-> NoInvoice]

(* One chat, followed over more than a week *)
Next ==
    \/ \E u \in Solo : ContactHandler(u)
    \/ \E u \in Solo : ForecastCommand(u)
    \/ \E u \in Solo : FreeText(u)
    \/ \E u \in Solo : PaymentCompleted(u)
    \/ \E u \in Solo : RestCommand(u)
    \/ DailyJobStart
    \/ DailyJobSent
    \/ Tick(EventDays)

Spec == Init /\ [][Next]_vars

(* The payment boundary of one chat: plan choice, pre-checkout, payment of *)
(* the invoice.                                                            *)
NextPayment ==
    \/ \E u \in Solo : Callback(u)
    \/ \E u \in Solo : PreCheckout(u)
    \/ \E u \in Solo : InvoicePaid(u)
    \/ Tick(EventDays)

SpecPayment == Init /\ [][NextPayment]_vars

(* Two chats on one day: the first registers and pays, the second pays,    *)
(* and the daily job runs among their updates.                             *)
NextSweep ==
    \/ \E u \in Solo : ContactHandler(u)
    \/ \E u \in Solo : FreeText(u)
    \/ \E u \in Users : PaymentCompleted(u)
    \/ DailyJobStart
    \/ DailyJobSent

SpecSweep == Init /\ [][NextSweep]_vars

(* One chat on one day, with a ledger file that may fail to be written *)
NextIO ==
    \/ \E u \in Solo : ContactHandler(u)
    \/ \E u \in Solo : ForecastCommand(u)
    \/ \E u \in Solo : FreeText(u)
    \/ \E u \in Solo : PaymentCompleted(u)
    \/ \E u \in Solo : SaveFails(u)

SpecIO == Init /\ [][NextIO]_vars

----------------------------------------------------------------------------
(* Properties *)

PaidStep(u) ==
    /\ out'.op = "successful_payment"
    /\ out'.uid = u
    /\ out'.days # NoDays

(* The entitlement decision of the interactive path: the request is        *)
(* answered with a forecast.                                               *)
InteractiveServes(rec, t) == \E o \in forecast(rec, t) : o.text # NoText

(* The entitlement decision of the sweep: the loop sends to the record *)
SweepServes(rec, day) == SweepEntitled(rec, day) /\ rec.name # NoName

(* C1: a completed payment never lowers the stored expiry of the user.     *)
C1_ExpiryNeverDecreases ==
    [][\A u \in Users : PaidStep(u) => users'[u].expires >= users[u].expires]_vars

(* C2: after a completed payment of `days` days at time now, the expiry is *)
(* max(now, prior expiry or now) + days.                                   *)
C2_ExpiryExtendsFromPrior ==
    [][\A u \in Users :
          PaidStep(u) =>
              LET prior == IF users[u].expires = NoTime THEN now ELSE users[u].expires
              IN  users'[u].expires = Max(now, prior) + out'.days * TicksPerDay]_vars

(* C3: for every record of the ledger and the current moment, the          *)
(* forecast request and the sweep take the same entitlement decision.      *)
C3_SameDecision ==
    \A u \in Users :
        users[u].exists =>
            (InteractiveServes(users[u], now) <=> SweepServes(users[u], Date(now)))

(* C4: a user who has just registered (the trial was granted at this very  *)
(* moment, so it is still the day of registration) and has not paid is     *)
(* served a forecast when asking for one.                                  *)
C4_TrialDayServed ==
    (out.op = "save_user" /\ out.reply = "trial" /\ ~users[out.uid].paid)
        => InteractiveServes(users[out.uid], now)

(* C5: per user and calendar day the generator is invoked at most once,    *)
(* and every forecast text delivered that day equals the first one.        *)
C5_OneGenerationPerDay ==
    /\ \A u \in Users : genCalls[u] <= 1
    /\ out.text # NoText => out.text = sent[out.uid]

(* The stored birth date is one that passes validation *)
ValidStored(txt, t) == \E b \in BirthInputs : b.txt = txt /\ is_valid_birth_date(b, t)

(* C6: the trial marker is set at most once and never cleared, at most one *)
(* trial forecast is ever delivered, and a record with the marker has name *)
(* and a validated birth date.                                             *)
C6_TrialOnce ==
    /\ [](\A u \in Users :
            /\ trials[u] <= 1
            /\ users[u].trial_used =>
                  /\ users[u].name # NoName
                  /\ ValidStored(users[u].birth, now))
    /\ [][\A u \in Users :
            /\ users[u].trial_used => users'[u].trial_used
            /\ trials'[u] > trials[u] => (~users[u].trial_used /\ users'[u].trial_used)]_vars

C6_Witness ==
    /\ out.op = "save_user"
    /\ out.reply = "trial"
    /\ users[out.uid].trial_used
    /\ trials[out.uid] = 1

(* C7: whenever a forecast text is delivered to a user, by a handler or by *)
(* the sweep, the record of that user has a trial granted or paid = true.  *)
C7_NoForecastWithoutTrialOrPaid ==
    out.text # NoText => (users[out.uid].trial_used \/ users[out.uid].paid)

C7_Witness ==
    /\ out.op = "daily_job"
    /\ out.text # NoText
    /\ users[out.uid].paid

(* C8: once the first-payment timestamp of a user is set, no step changes  *)
(* it.                                                                     *)
C8_FirstPaymentWrittenOnce ==
    [][\A u \in Users :
          users[u].first_payment # NoTime
              => users'[u].first_payment = users[u].first_payment]_vars

(* The free-text messages the input validation has to reject: fewer than   *)
(* two lines, a malformed date, a future date, a date older than the       *)
(* maximum age.                                                            *)
InvalidMessages ==
    {m \in Messages :
        /\ ~m.slash
        /\ \/ m.nlines < 2
           \/ m.birth.txt \in {"31.13.2050", "not-a-date", "01.06.2050", "01.01.1876"}}

(* C9: a registration message (from a chat that shared its contact and has *)
(* neither a subscription nor a trial) that is invalid is answered with a  *)
(* corrective prompt and changes nothing: no record, no name or birth      *)
(* date, no trial, no save, no generated forecast.                         *)
C9_RejectionMutatesNothing ==
    \A u \in Users :
        (contact_sent[u] /\ ~users[u].paid /\ ~users[u].trial_used) =>
            \A m \in InvalidMessages :
                \A o \in save_user(users[u], contact_sent[u], m, now) :
                    /\ o.reply \in {"format", "bad_date"}
                    /\ o.rec = users[u]
                    /\ ~o.saved
                    /\ ~o.generated
                    /\ o.text = NoText

C9_Witness ==
    /\ out.op = "save_user"
    /\ out.reply = "bad_date"
    /\ ~users[out.uid].exists
    /\ contact_sent[out.uid]

(* C10: after a completed payment whose payload holds no integer day       *)
(* count, the user is paid with an expiry in the future.                   *)
C10_MalformedPayloadApplied ==
    (out.op = "successful_payment" /\ out.days = NoDays)
        => (users[out.uid].paid /\ users[out.uid].expires > now)

(* C11 as claimed: every pre-checkout query is answered ok = true.         *)
C11_AlwaysAccepted ==
    out.op = "pre_checkout_handler" => out.reply = "ok"

(* C11 amended: a pre-checkout query is answered ok = true exactly when    *)
(* its currency is XTR, the currency of every invoice callback sends; a    *)
(* query in another currency is rejected.                                  *)
C11_AcceptedIffStars ==
    /\ out.op = "pre_checkout_handler" => (out.reply = "ok" <=> out.arg = "XTR")
    /\ \A u \in Users : invoice[u] # NoInvoice => invoice[u].currency = "XTR"

C11_Witness ==
    /\ out.op = "pre_checkout_handler"
    /\ out.arg = "USD"
    /\ out.reply = "rejected"
    /\ invoice[out.uid] # NoInvoice

(* C12: a delivery failure for one user never aborts the run of the daily  *)
(* job: after the failed send the loop goes on to the next entitled user,  *)
(* or ends because none is left.                                           *)
C12_SendFailureNeverAborts ==
    (out.op = "daily_job" /\ out.reply = "send_failed")
        => out.then \in {"send", "done"}

(* C13: in a run of the daily job every record with name and birth gets a  *)
(* message, a forecast when entitled and a renewal prompt otherwise; so a  *)
(* run that ends without having sent anything found no such record.        *)
C13_NoneSkippedSilently ==
    (out.op = "daily_job" /\ out.reply = "started" /\ out.then = "done")
        => \A u \in Users : ~(users[u].name # NoName /\ users[u].birth # NoBirth)

(* C14: when writing the ledger fails in a handler, the handler ends in a  *)
(* reported failure: the exception leaves it and is not swallowed inside.  *)
C14_SaveFailureReported ==
    out.reply \in {"OSError", "OSError_caught"} => out.reply = "OSError"

(* C15: the daily job delivers the day's cached text: once the job has     *)
(* sent a forecast to a user, the cache of that user holds, for that day,  *)
(* the text that was sent, and it is the text the user got first that day. *)
C15_SweepDeliversCachedText ==
    (out.op = "daily_job" /\ out.reply = "forecast")
        => /\ users[out.uid].cached_forecast = out.text
           /\ users[out.uid].last_forecast_date # NoTime
           /\ sent[out.uid] = out.text

(* The paid user u holds the fallback text in the cache of the current day *)
FallbackCached(u) ==
    /\ users[u].paid
    /\ now < users[u].expires
    /\ users[u].last_forecast_date = Date(now)
    /\ users[u].cached_forecast = Fallback(users[u].name, users[u].birth)

C17_PlanDaysExtendWindow ==
    [][\A u \in Users :
          (PaidStep(u) /\ invoice[u] # NoInvoice) =>
              LET days  == PlanDays[invoice[u].plan]
                  prior == IF users[u].expires = NoTime THEN now ELSE users[u].expires
              IN  /\ out'.days = days
                  /\ users'[u].expires = Max(now, prior) + days * TicksPerDay]_vars

(* C18: a record with paid = true has name and birth set, so that no       *)
(* forecast request and no run of the daily job over a paid, unexpired     *)
(* user fails on a missing field.                                          *)
C18_PaidHasNameAndBirth ==
    /\ \A u \in Users :
          users[u].paid => (users[u].name # NoName /\ users[u].birth # NoBirth)
    /\ out.reply # "KeyError"
    /\ out.then # "KeyError"

(* C19: paid changes from true to false only in a step taken at or after   *)
(* the expiry the record holds at that moment; nothing clears paid while   *)
(* the window is still open.                                               *)
C19_PaidClearedOnlyAfterExpiry ==
    [][\A u \in Users :
          (users[u].paid /\ ~users'[u].paid) => now >= users[u].expires]_vars

(* An expiry has just been detected and paid cleared *)
C19_Witness ==
    /\ out.reply = "expired"
    /\ out.uid \in Users
    /\ ~users[out.uid].paid
    /\ users[out.uid].expires # NoTime
    /\ now >= users[out.uid].expires

(* C20: whenever a handler has finished and no write of the ledger has     *)
(* failed, the ledger on disk equals the ledger in memory.                 *)
C20_DiskEqualsMemory ==
    disk = users

(* Every kind of mutation has been made and written: the record is         *)
(* registered, was paid, its expiry was detected and its cache was filled. *)
C20_Witness ==
    /\ disk = users
    /\ \E u \in Users :
          /\ disk[u].name # NoName
          /\ disk[u].first_payment # NoTime
          /\ ~disk[u].paid
          /\ disk[u].cached_forecast # NoText

(* C21: a free-text message of a user whose contact-shared event has not   *)
(* been handled in this session creates or changes no record, writes       *)
(* nothing and produces no forecast: it is answered with the prompt to     *)
(* share the phone number (a text that starts with "/" is not free text    *)
(* and is dropped without an answer).                                      *)
C21_NoContactNoRegistration ==
    [][\A u \in Users :
          (out'.op = "save_user" /\ out'.uid = u /\ ~contact_sent[u]) =>
              /\ users' = users
              /\ order' = order
              /\ disk' = disk
              /\ genCalls' = genCalls
              /\ sent' = sent
              /\ out'.text = NoText
              /\ out'.reply \in {"share_phone", "none"}]_vars

(* A message is answered with the prompt; the ledger holds no record of    *)
(* the sender and still does not                                           *)
C21_Witness ==
    /\ out.op = "save_user"
    /\ out.reply = "share_phone"
    /\ ~contact_sent[out.uid]
    /\ ~users[out.uid].exists
    /\ disk = users

(* C22: a run of the daily job that interleaves with handlers inserting    *)
(* new records still completes its pass: the insertion never aborts the    *)
(* iteration.                                                              *)
C22_InsertionNeverAbortsSweep ==
    out.op = "daily_job" => out.then # "RuntimeError"

====
